---- MODULE Spec2Model ----
(***************************************************************************)
(* gemini-agent: the research pipeline driver (index.ts, v3), the agents   *)
(* (src/agents/index.ts, direct-API variant) and the client initializer    *)
(* (src/ai.ts), as one state machine.                                      *)
(*                                                                         *)
(* Strings the code takes apart (the topic, streamed text) are sequences   *)
(* of one-character strings.  Every request of the pipeline (coordinator,  *)
(* one per research question, writer) is a record that walks through       *)
(* initializeClient and withRetry; the model API, the terminal and the     *)
(* file system are the environment and choose their outcomes freely.       *)
(***************************************************************************)
EXTENDS Integers, Sequences, FiniteSets, TLC

\* ------------------------------------------------------------------ bounds
MaxQ == 2            \* most questions in a plan the coordinator's model answers with
MaxChunks == 2       \* most chunks in the writer's stream

\* ------------------------------------------------------- program constants
MAX_RETRIES == 5
INITIAL_DELAY_MS == 1000
RATE_LIMIT == 429

\* ----------------------------------------------------------------- strings
Chars == {" ", "a"}
IsSpace(ch) == ch = " "

RECURSIVE TrimStart(_)
TrimStart(s) ==
    IF s # <<>> /\ IsSpace(Head(s)) THEN TrimStart(Tail(s)) ELSE s

RECURSIVE TrimEnd(_)
TrimEnd(s) ==
    IF s # <<>> /\ IsSpace(s[Len(s)]) THEN TrimEnd(SubSeq(s, 1, Len(s) - 1)) ELSE s

\* String.prototype.trim
Trim(s) == TrimEnd(TrimStart(s))

\* JS truthiness of a string: the empty string is falsy
Truthy(s) == s # <<>>

\* the topics tried: empty, blank, plain, padded
TopicStrings ==
    { <<>>, <<" ">>, <<" ", " ">>, <<"a">>, <<" ", "a", " ">> }

RECURSIVE Pow2(_)
Pow2(n) == IF n = 0 THEN 1 ELSE 2 * Pow2(n - 1)

RECURSIVE SumSeq(_)
SumSeq(s) == IF s = <<>> THEN 0 ELSE Head(s) + SumSeq(Tail(s))

RECURSIVE Flatten(_)
Flatten(ss) == IF ss = <<>> THEN <<>> ELSE Head(ss) \o Flatten(Tail(ss))

\* ------------------------------------------------------------------ errors
\* A thrown value: obj says whether it is a non-null object; status and code
\* are its numeric fields (0 where the field is missing); src names the call
\* that raised it and seq the invocation of that call, which together stand
\* for the identity of the thrown object.
ErrorShapes ==
    { [obj |-> TRUE,  status |-> RATE_LIMIT, code |-> 0],
      [obj |-> TRUE,  status |-> 0,          code |-> RATE_LIMIT],
      [obj |-> TRUE,  status |-> 500,        code |-> 0],
      [obj |-> FALSE, status |-> 0,          code |-> 0] }

\* errors of calls that withRetry does not wrap
PlainErrorShapes ==
    { [obj |-> TRUE, status |-> RATE_LIMIT, code |-> 0],
      [obj |-> TRUE, status |-> 500,        code |-> 0] }

MkError(shape, src, id, seq) ==
    [obj |-> shape.obj, status |-> shape.status, code |-> shape.code,
     src |-> src, id |-> id, seq |-> seq]

NoError ==
    [obj |-> FALSE, status |-> 0, code |-> 0, src |-> "none", id |-> 0, seq |-> 0]

isRateLimitError(error) ==
    IF error.obj
    THEN error.status = RATE_LIMIT \/ error.code = RATE_LIMIT
    ELSE FALSE

\* --------------------------------------------------------------- withRetry
\* One call of withRetry(fn, context), together with the initializeClient
\* call that precedes it in generateContent/streamContent:
\*   pc        where the call is: "idle" (not started), "cfg"/"gen" (awaiting
\*             createContentGeneratorConfig / createContentGenerator),
\*             "calling" (awaiting fn()), "sleeping" (awaiting sleep(delay)),
\*             "returned", "thrown", "done" (its result was consumed)
\*   attempt   the loop variable
\*   calls     how many times fn was invoked
\*   waits     the delays slept, in order
\*   lastError the local of that name; error the value thrown to the caller
\*   result    the value returned to the caller
\*   fnError, fnValue   what the latest invocation of fn settled with, as the
\*             operation (not the wrapper) saw it
\*   client, config   the handle initializeClient returned to this call
NoValue == [cand |-> FALSE, parts |-> <<>>]

NewCall ==
    [pc |-> "idle", attempt |-> 0, calls |-> 0, waits |-> <<>>,
     lastError |-> NoError, error |-> NoError, result |-> NoValue,
     fnError |-> NoError, fnValue |-> NoValue, client |-> 0, config |-> 0]

\* line 48, the delay growing linearly / starting one step late
DelayLinear(attempt) == INITIAL_DELAY_MS * (attempt + 1)
DelayShifted(attempt) == INITIAL_DELAY_MS * Pow2(attempt + 1)
Delay(attempt) == INITIAL_DELAY_MS * Pow2(attempt)

\* lines 35-39: enter the loop and invoke fn for the first time
RetryStart(c) == [c EXCEPT !.pc = "calling", !.attempt = 0, !.calls = 1]

\* line 39: fn resolved
RetryReturn(c, v) == [c EXCEPT !.pc = "returned", !.result = v]

\* RetryCatch without the isRateLimitError test of line 43
RetryCatchAnyError(c, e) ==
    LET c1 == [c EXCEPT !.lastError = e] IN
    IF c.attempt < MAX_RETRIES - 1
    THEN [c1 EXCEPT !.pc = "sleeping", !.waits = Append(@, Delay(c.attempt))]
    ELSE [c1 EXCEPT !.pc = "thrown", !.attempt = @ + 1, !.error = c1.lastError]

\* RetryCatch with the loop running while attempt <= MAX_RETRIES
RetryCatchOneMore(c, e) ==
    LET c1 == [c EXCEPT !.lastError = e] IN
    IF ~isRateLimitError(e)
    THEN [c1 EXCEPT !.pc = "thrown", !.error = e]
    ELSE IF c.attempt < MAX_RETRIES
         THEN [c1 EXCEPT !.pc = "sleeping",
                         !.waits = Append(@, Delay(c.attempt))]
         ELSE [c1 EXCEPT !.pc = "thrown", !.attempt = @ + 1,
                         !.error = c1.lastError]

\* lines 40-57: fn rejected with e
RetryCatch(c, e) ==
    LET c1 == [c EXCEPT !.lastError = e] IN
    IF ~isRateLimitError(e)
    THEN [c1 EXCEPT !.pc = "thrown", !.error = e]
    ELSE IF c.attempt < MAX_RETRIES - 1
         THEN [c1 EXCEPT !.pc = "sleeping",
                         !.waits = Append(@, Delay(c.attempt))]
         ELSE [c1 EXCEPT !.pc = "thrown", !.attempt = @ + 1,
                         !.error = c1.lastError]

\* a loop whose attempt++ is missing
RetryWakeNoCount(c) == [c EXCEPT !.pc = "calling", !.calls = @ + 1]

\* lines 52, 37, 39: the sleep is over, attempt++, invoke fn again
RetryWake(c) ==
    [c EXCEPT !.pc = "calling", !.attempt = @ + 1, !.calls = @ + 1]

\* a call whose settled value the caller has taken
Consumed == [NewCall EXCEPT !.pc = "done"]

\* --------------------------------------------------- model responses, JSON
\* A response of client.generateContent: cand says whether candidates[0]
\* exists, parts is candidates[0].content.parts (empty when missing); a part
\* has a text or none.
Part(t) == [hasText |-> TRUE, text |-> t]
NoTextPart == [hasText |-> FALSE, text |-> <<>>]

RECURSIVE JoinParts(_)
JoinParts(parts) ==
    IF parts = <<>> THEN <<>>
    ELSE (IF Head(parts).hasText THEN Head(parts).text ELSE <<>>)
         \o JoinParts(Tail(parts))

\* lines 115-117: the text of a response
ResponseText(response) ==
    IF response.cand THEN JoinParts(response.parts) ELSE <<>>

\* The coordinator's text is a sequence of documents; a text of exactly one
\* well-formed document parses, anything else (no output, garbage, two
\* documents run together) makes JSON.parse throw.
QuestionNames == <<"q1", "q2", "q3", "q4">>
JStr(s) == [t |-> "string", s |-> s]
JNum == [t |-> "number", s |-> "0"]
JArr(items) == [t |-> "array", items |-> items]
JAbsent == [t |-> "absent", items |-> <<>>]
JObj(q, r) == [t |-> "object", questions |-> q, rationale |-> r]
JNull == [t |-> "null", questions |-> JAbsent, rationale |-> JAbsent]

GoodDoc(k) ==
    [kind |-> "json",
     val |-> JObj(JArr([i \in 1..k |-> JStr(QuestionNames[i])]),
                  [t |-> "string", items |-> <<>>])]
Docs ==
    { GoodDoc(k) : k \in 0..MaxQ }
    \cup { [kind |-> "garbage", val |-> JNull],
           [kind |-> "json", val |-> JNull],
           [kind |-> "json",
            val |-> JObj(JArr(<<JNum>>), [t |-> "string", items |-> <<>>])],
           [kind |-> "json", val |-> JObj(JArr(<<JStr("q1")>>), JAbsent)] }

CanParseJSON(text) == Len(text) = 1 /\ text[1].kind = "json"
ParseJSON(text) == text[1].val

\* the schema without the rationale field
SchemaAcceptsQuestionsOnly(v) ==
    /\ v.t = "object"
    /\ v.questions.t = "array"
    /\ \A i \in 1..Len(v.questions.items) : v.questions.items[i].t = "string"

\* lines 61-64: researchPlanSchema
SchemaAccepts(v) ==
    /\ v.t = "object"
    /\ v.questions.t = "array"
    /\ \A i \in 1..Len(v.questions.items) : v.questions.items[i].t = "string"
    /\ v.rationale.t = "string"

PlanOf(v) ==
    [questions |-> [i \in 1..Len(v.questions.items) |-> v.questions.items[i].s],
     rationale |-> "r"]
NoPlan == [questions |-> <<>>, rationale |-> "none"]

CoordResponses ==
    { [cand |-> TRUE, parts |-> <<Part(<<d>>)>>] : d \in Docs }
    \cup { [cand |-> FALSE, parts |-> <<>>],
           [cand |-> TRUE, parts |-> <<NoTextPart>>] }

ResearchResponses ==
    { [cand |-> TRUE, parts |-> <<Part(<<"x">>)>>],
      [cand |-> FALSE, parts |-> <<>>] }

\* what generateContentStream resolves with: the stream, not yet read
StreamHandle == [cand |-> FALSE, parts |-> <<>>]

\* lines 221-250: the result of runResearcher (sources left out)
ResearchResultOf(question, response) ==
    [question |-> question, findings |-> ResponseText(response)]

\* ------------------------------------------------------------ writer stream
\* A chunk of the writer's stream: cand says whether candidates[0] exists,
\* parts is its content.parts (empty when missing).  Streamed text is made
\* of the characters "x" and "y"; a part's text may be the empty string.
Chunks ==
    { [cand |-> TRUE, parts |-> ps] :
        ps \in { <<>>, <<Part(<<"x">>)>>, <<Part(<<"y">>)>>,
                 <<Part(<<>>), NoTextPart>>,
                 <<Part(<<"x">>), Part(<<"y">>)>>,
                 <<Part(<<"y">>), NoTextPart, Part(<<"x">>)>> } }
    \cup { [cand |-> FALSE, parts |-> <<>>] }

\* the text fragments a chunk carries, in order
ChunkFragments(chunk) ==
    IF chunk.cand
    THEN [i \in 1..Len(chunk.parts) |->
            IF chunk.parts[i].hasText THEN chunk.parts[i].text ELSE <<>>]
    ELSE <<>>

\* lines 170-180: the fragments of one chunk that are appended to fullText
\* and handed to onText: those of parts whose text is truthy
RECURSIVE EmittedParts(_)
EmittedParts(parts) ==
    IF parts = <<>> THEN <<>>
    ELSE (IF Head(parts).hasText /\ Truthy(Head(parts).text)
          THEN <<Head(parts).text>> ELSE <<>>)
         \o EmittedParts(Tail(parts))

\* only parts[0] of each chunk is emitted
EmittedFirstOnly(chunk) ==
    IF chunk.cand /\ chunk.parts # <<>>
    THEN EmittedParts(<<Head(chunk.parts)>>) ELSE <<>>

Emitted(chunk) == IF chunk.cand THEN EmittedParts(chunk.parts) ELSE <<>>

\* ------------------------------------------------------------------- state
VARIABLES
    pc,               \* where main() is
    topic,            \* the local of main
    plan,             \* the coordinator's plan
    req,              \* the requests: 0 coordinator, 1..K researchers, Writer
    values,           \* Promise.all: the slot of each research promise
    joined,           \* Promise.all: "none", "pending", "fulfilled", "rejected"
    joinError,        \* Promise.all: the reason it rejected with
    doneOrder,        \* the researchers in the order their promises fulfilled
    results,          \* the local of main
    fullText,         \* streamContent: the accumulated text
    console,          \* the fragments process.stdout.write received from onText
    arrived,          \* the text fragments the stream has delivered, in order
    nchunks,          \* chunks read from the stream
    report,           \* the local of main
    failure,          \* the value caught by main's catch
    stderr,           \* what console.error printed
    exitCode,         \* the code process.exit was called with (-1: running)
    file,             \* the output file
    generatorConfig,  \* src/ai.ts module state (0: null)
    contentGenerator  \* src/ai.ts module state (0: null)

vars == <<pc, topic, plan, req, values, joined, joinError, doneOrder, results, fullText,
          console, arrived, nchunks, report, failure, stderr, exitCode, file,
          generatorConfig, contentGenerator>>

Coordinator == 0
Writer == MaxQ + 1
ReqIds == 0..Writer
K == Len(plan.questions)
Researchers == 1..K

NoResult == [question |-> "none", findings |-> <<>>]
NoFile == [written |-> FALSE, content |-> <<>>]
TopicMessage == MkError([obj |-> FALSE, status |-> 0, code |-> 0], "topic", 0, 0)

Init ==
    /\ pc = "start"
    /\ topic = <<>>
    /\ plan = NoPlan
    /\ req = [id \in ReqIds |-> NewCall]
    /\ values = <<>>
    /\ joined = "none"
    /\ joinError = NoError
    /\ doneOrder = <<>>
    /\ results = <<>>
    /\ fullText = <<>>
    /\ console = <<>>
    /\ arrived = <<>>
    /\ nchunks = 0
    /\ report = <<>>
    /\ failure = NoError
    /\ stderr = <<>>
    /\ exitCode = -1
    /\ file = NoFile
    /\ generatorConfig = 0
    /\ contentGenerator = 0

\* JavaScript runs a task and the continuations it makes ready to
\* completion before the next event is handled: an event of the environment
\* (a response, a timer, a chunk) is handled only when main() is suspended
\* in an await whose promise has not settled.
Awaiting ==
    \/ pc = "coord" /\ req[Coordinator].pc \notin {"returned", "thrown"}
    \/ pc = "research" /\ joined = "pending"
    \/ pc = "writer" /\ req[Writer].pc # "thrown"
    \/ pc \in {"prompt", "mkdir", "write"}
    \/ pc = "clients"

\* ------------------------------------------------------- initializeClient
\* src/ai.ts lines 23-34, then generateContent line 110 / streamContent line
\* 162 when the handle is cached: the synchronous start of a request
\* initializeClient without the cache test of line 23
StartRequestUncached(c) == [c EXCEPT !.pc = "cfg"]

StartRequest(c) ==
    IF contentGenerator # 0 /\ generatorConfig # 0
    THEN [RetryStart(c) EXCEPT !.client = contentGenerator,
                               !.config = generatorConfig]
    ELSE [c EXCEPT !.pc = "cfg"]

\* lines 31-34: createContentGeneratorConfig resolved
CfgResolve(id) ==
    /\ Awaiting /\ req[id].pc = "cfg"
    /\ generatorConfig' = id + 1
    /\ req' = [req EXCEPT ![id].pc = "gen"]
    /\ UNCHANGED <<pc, topic, plan, values, joined, joinError, doneOrder, results,
                   fullText, console, arrived, nchunks, report, failure,
                   stderr, exitCode, file, contentGenerator>>

\* the rejection of request id reaches Promise.all when id is a researcher
\* a join that rejects only when every other request has settled
RejectAllSettled(id, e) ==
    IF /\ id \in Researchers /\ joined = "pending"
       /\ \A j \in Researchers \ {id} : req[j].pc \in {"returned", "thrown"}
    THEN joined' = "rejected" /\ joinError' = e
    ELSE UNCHANGED <<joined, joinError>>

RejectAll(id, e) ==
    IF id \in Researchers /\ joined = "pending"
    THEN joined' = "rejected" /\ joinError' = e
    ELSE UNCHANGED <<joined, joinError>>

CfgReject(id, shape) ==
    /\ Awaiting /\ req[id].pc = "cfg"
    /\ LET e == MkError(shape, "auth", id, 1) IN
         /\ req' = [req EXCEPT ![id].pc = "thrown", ![id].error = e]
         /\ RejectAll(id, e)
    /\ UNCHANGED <<pc, topic, plan, values, doneOrder, results, fullText,
                   console, arrived, nchunks, report, failure, stderr,
                   exitCode, file, generatorConfig, contentGenerator>>

\* lines 37-42: createContentGenerator resolved; the caller goes on to withRetry
GenResolve(id) ==
    /\ Awaiting /\ req[id].pc = "gen"
    /\ contentGenerator' = id + 1
    /\ req' = [req EXCEPT ![id] = [RetryStart(@) EXCEPT
                                     !.client = contentGenerator',
                                     !.config = generatorConfig]]
    /\ UNCHANGED <<pc, topic, plan, values, joined, joinError, doneOrder, results,
                   fullText, console, arrived, nchunks, report, failure,
                   stderr, exitCode, file, generatorConfig>>

GenReject(id, shape) ==
    /\ Awaiting /\ req[id].pc = "gen"
    /\ LET e == MkError(shape, "auth", id, 2) IN
         /\ req' = [req EXCEPT ![id].pc = "thrown", ![id].error = e]
         /\ RejectAll(id, e)
    /\ UNCHANGED <<pc, topic, plan, values, doneOrder, results, fullText,
                   console, arrived, nchunks, report, failure, stderr,
                   exitCode, file, generatorConfig, contentGenerator>>

\* ------------------------------------------------- the requests' settling
ResponsesFor(id) ==
    IF id = Coordinator THEN CoordResponses
    ELSE IF id = Writer THEN {StreamHandle}
    ELSE ResearchResponses

\* the results pushed onto the list as they complete
PromiseAllPush(slots, index, v) ==
    LET free == { i \in 1..Len(slots) : slots[i] = NoResult }
        first == CHOOSE i \in free : \A j \in free : i <= j
    IN [slots EXCEPT ![first] = v]
\* index.ts lines 126-131: Promise.all keeps the value of promise `index`
\* in slot `index`
PromiseAllStore(slots, index, v) == [slots EXCEPT ![index] = v]

\* fn() resolved with v: withRetry returns it; for a researcher the whole
\* chain generateContent -> runResearcher -> map callback -> Promise.all runs
FnResolve(id, v) ==
    /\ Awaiting /\ req[id].pc = "calling"
    /\ req' = [req EXCEPT ![id] = [RetryReturn(@, v) EXCEPT !.fnValue = v]]
    /\ IF id \in Researchers /\ joined = "pending"
       THEN LET r == ResearchResultOf(plan.questions[id], req'[id].result)
                vs == PromiseAllStore(values, id, r)
            IN /\ values' = vs
               /\ joined' = IF \A i \in Researchers : vs[i] # NoResult
                             THEN "fulfilled" ELSE "pending"
               /\ doneOrder' = Append(doneOrder, id)
       ELSE UNCHANGED <<values, joined, doneOrder>>
    /\ UNCHANGED <<pc, topic, plan, joinError, results, fullText, console,
                   arrived, nchunks, report, failure, stderr, exitCode, file,
                   generatorConfig, contentGenerator>>

\* fn() rejected: the catch block of withRetry
\* withRetry with one attempt counter shared by all calls in flight
FnRejectShared(id, shape) ==
    /\ Awaiting /\ req[id].pc = "calling"
    /\ LET e == MkError(shape, "fn", id, req[id].calls)
           shared == CHOOSE a \in 0..MAX_RETRIES :
                        /\ \E i \in ReqIds : req[i].attempt = a
                        /\ \A i \in ReqIds : req[i].attempt <= a
       IN
         /\ req' = [req EXCEPT ![id] =
                      [RetryCatch([@ EXCEPT !.attempt = shared], e)
                         EXCEPT !.fnError = e]]
         /\ IF req'[id].pc = "thrown"
            THEN RejectAll(id, req'[id].error)
            ELSE UNCHANGED <<joined, joinError>>
    /\ UNCHANGED <<pc, topic, plan, values, doneOrder, results, fullText,
                   console, arrived, nchunks, report, failure, stderr,
                   exitCode, file, generatorConfig, contentGenerator>>

FnReject(id, shape) ==
    /\ Awaiting /\ req[id].pc = "calling"
    /\ LET e == MkError(shape, "fn", id, req[id].calls) IN
         /\ req' = [req EXCEPT ![id] = [RetryCatch(@, e) EXCEPT !.fnError = e]]
         /\ IF req'[id].pc = "thrown"
            THEN RejectAll(id, req'[id].error)
            ELSE UNCHANGED <<joined, joinError>>
    /\ UNCHANGED <<pc, topic, plan, values, doneOrder, results, fullText,
                   console, arrived, nchunks, report, failure, stderr,
                   exitCode, file, generatorConfig, contentGenerator>>

\* the timer of sleep(delay) fired
SleepDone(id) ==
    /\ Awaiting /\ req[id].pc = "sleeping"
    /\ req' = [req EXCEPT ![id] = RetryWake(@)]
    /\ UNCHANGED <<pc, topic, plan, values, joined, joinError, doneOrder, results,
                   fullText, console, arrived, nchunks, report, failure,
                   stderr, exitCode, file, generatorConfig, contentGenerator>>

\* --------------------------------------------------------------- main()
\* lines 99-104: --topic was given and is truthy
ArgTopic(t) ==
    /\ pc = "start" /\ Truthy(t)
    /\ topic' = t
    /\ pc' = "check"
    /\ UNCHANGED <<plan, req, values, joined, joinError, doneOrder, results, fullText,
                   console, arrived, nchunks, report, failure, stderr,
                   exitCode, file, generatorConfig, contentGenerator>>

\* lines 100-101: --topic is missing or the empty string: ask
AskTopic ==
    /\ pc = "start"
    /\ pc' = "prompt"
    /\ UNCHANGED <<topic, plan, req, values, joined, joinError, doneOrder, results,
                   fullText, console, arrived, nchunks, report, failure,
                   stderr, exitCode, file, generatorConfig, contentGenerator>>

\* line 101: rl.question resolved with the line typed
AnswerTopic(t) ==
    /\ pc = "prompt"
    /\ topic' = t
    /\ pc' = "check"
    /\ UNCHANGED <<plan, req, values, joined, joinError, doneOrder, results, fullText,
                   console, arrived, nchunks, report, failure, stderr,
                   exitCode, file, generatorConfig, contentGenerator>>

\* the test of line 106 without trim()
TopicMissingUntrimmed(t) == ~Truthy(t)

\* line 106
TopicMissing(t) == ~Truthy(Trim(t))

\* lines 106-109
RejectTopic ==
    /\ pc = "check" /\ TopicMissing(topic)
    /\ stderr' = Append(stderr, TopicMessage)
    /\ exitCode' = 1
    /\ pc' = "exited"
    /\ UNCHANGED <<topic, plan, req, values, joined, joinError, doneOrder, results,
                   fullText, console, arrived, nchunks, report, failure,
                   file, generatorConfig, contentGenerator>>

\* lines 111-114: enter the try block and call runCoordinator
StartCoordinator ==
    /\ pc = "check" /\ ~TopicMissing(topic)
    /\ req' = [req EXCEPT ![Coordinator] = StartRequest(@)]
    /\ pc' = "coord"
    /\ UNCHANGED <<topic, plan, values, joined, joinError, doneOrder, results, fullText,
                   console, arrived, nchunks, report, failure, stderr,
                   exitCode, file, generatorConfig, contentGenerator>>

\* agents lines 203-208: does runCoordinator return a plan for this response
PlanAccepted(response) ==
    /\ CanParseJSON(ResponseText(response))
    /\ SchemaAccepts(ParseJSON(ResponseText(response)))

\* a driver that starts the first researcher only
CoordinatorPlannedSequential ==
    /\ pc = "coord" /\ req[Coordinator].pc = "returned"
    /\ PlanAccepted(req[Coordinator].result)
    /\ LET p == PlanOf(ParseJSON(ResponseText(req[Coordinator].result)))
           k == Len(p.questions)
       IN /\ plan' = p
          /\ req' = [id \in ReqIds |->
                       IF id = Coordinator THEN Consumed
                       ELSE IF id = 1 /\ k >= 1 THEN StartRequest(req[id])
                       ELSE req[id]]
          /\ values' = [i \in 1..k |-> NoResult]
          /\ joined' = IF k = 0 THEN "fulfilled" ELSE "pending"
    /\ pc' = "research"
    /\ UNCHANGED <<topic, joinError, doneOrder, results, fullText, console, arrived,
                   nchunks, report, failure, stderr, exitCode, file,
                   generatorConfig, contentGenerator>>

\* runCoordinator returned a plan; lines 116-131: print it, start one
\* runResearcher per question and await Promise.all
CoordinatorPlanned ==
    /\ pc = "coord" /\ req[Coordinator].pc = "returned"
    /\ PlanAccepted(req[Coordinator].result)
    /\ LET p == PlanOf(ParseJSON(ResponseText(req[Coordinator].result)))
           k == Len(p.questions)
       IN /\ plan' = p
          /\ req' = [id \in ReqIds |->
                       IF id = Coordinator THEN Consumed
                       ELSE IF id \in 1..k THEN StartRequest(req[id])
                       ELSE req[id]]
          /\ values' = [i \in 1..k |-> NoResult]
          /\ joined' = IF k = 0 THEN "fulfilled" ELSE "pending"
    /\ pc' = "research"
    /\ UNCHANGED <<topic, joinError, doneOrder, results, fullText, console, arrived,
                   nchunks, report, failure, stderr, exitCode, file,
                   generatorConfig, contentGenerator>>

\* agents line 207: JSON.parse or the schema threw
CoordinatorBadOutput ==
    /\ pc = "coord" /\ req[Coordinator].pc = "returned"
    /\ ~PlanAccepted(req[Coordinator].result)
    /\ failure' = MkError([obj |-> TRUE, status |-> 0, code |-> 0],
                          "parse", Coordinator, 1)
    /\ pc' = "catch"
    /\ UNCHANGED <<topic, plan, req, values, joined, joinError, doneOrder, results,
                   fullText, console, arrived, nchunks, report, stderr,
                   exitCode, file, generatorConfig, contentGenerator>>

\* runCoordinator rejected (client creation or the request failed)
CoordinatorFailed ==
    /\ pc = "coord" /\ req[Coordinator].pc = "thrown"
    /\ failure' = req[Coordinator].error
    /\ pc' = "catch"
    /\ UNCHANGED <<topic, plan, req, values, joined, joinError, doneOrder, results,
                   fullText, console, arrived, nchunks, report, stderr,
                   exitCode, file, generatorConfig, contentGenerator>>

\* main goes on to the writer without awaiting Promise.all
ResearchNotAwaited ==
    /\ pc = "research"
    /\ results' = values
    /\ doneOrder' = <<>>
    /\ req' = [req EXCEPT ![Writer] = StartRequest(@)]
    /\ pc' = "writer"
    /\ UNCHANGED <<topic, plan, values, joined, joinError, fullText, console,
                   arrived, nchunks, report, failure, stderr, exitCode, file,
                   generatorConfig, contentGenerator>>

\* lines 131-153: Promise.all fulfilled; show the results and call runWriter,
\* which calls streamContent (agents lines 270, 137, 162)
ResearchJoined ==
    /\ pc = "research" /\ joined = "fulfilled"
    /\ results' = values
    /\ doneOrder' = <<>>
    /\ req' = [id \in ReqIds |->
                 IF id \in Researchers THEN Consumed
                 ELSE IF id = Writer THEN StartRequest(req[id])
                 ELSE req[id]]
    /\ pc' = "writer"
    /\ UNCHANGED <<topic, plan, values, joined, joinError, fullText, console,
                   arrived, nchunks, report, failure, stderr, exitCode, file,
                   generatorConfig, contentGenerator>>

\* a failed question is skipped and the writer gets the other findings
ResearchFailedPartial ==
    /\ pc = "research" /\ joined = "rejected"
    /\ results' = values
    /\ req' = [req EXCEPT ![Writer] = StartRequest(@)]
    /\ pc' = "writer"
    /\ UNCHANGED <<topic, plan, values, joined, joinError, doneOrder,
                   fullText, console, arrived, nchunks, report, failure,
                   stderr, exitCode, file, generatorConfig, contentGenerator>>

\* line 131: Promise.all rejected
ResearchFailed ==
    /\ pc = "research" /\ joined = "rejected"
    /\ failure' = joinError
    /\ pc' = "catch"
    /\ UNCHANGED <<topic, plan, req, values, joined, joinError, doneOrder, results,
                   fullText, console, arrived, nchunks, report, stderr,
                   exitCode, file, generatorConfig, contentGenerator>>

\* agents lines 169-186: one chunk of the stream
AppendAll(text, frags) == text \o Flatten(frags)

StreamChunk(chunk) ==
    /\ pc = "writer" /\ req[Writer].pc = "returned"
    /\ nchunks < MaxChunks
    /\ nchunks' = nchunks + 1
    /\ arrived' = arrived \o Flatten(ChunkFragments(chunk))
    /\ fullText' = AppendAll(fullText, Emitted(chunk))
    /\ console' = AppendAll(console, Emitted(chunk))
    /\ UNCHANGED <<pc, topic, plan, req, values, joined, joinError, doneOrder, results,
                   report, failure, stderr, exitCode, file, generatorConfig,
                   contentGenerator>>

\* agents lines 188, 278-279, index.ts lines 153-156: the stream ended;
\* streamContent and runWriter return, main calls mkdir
StreamEnd ==
    /\ pc = "writer" /\ req[Writer].pc = "returned"
    /\ report' = fullText
    /\ req' = [req EXCEPT ![Writer] = Consumed]
    /\ pc' = "mkdir"
    /\ UNCHANGED <<topic, plan, values, joined, joinError, doneOrder, results, fullText,
                   console, arrived, nchunks, failure, stderr, exitCode, file,
                   generatorConfig, contentGenerator>>

\* a for-await loop inside withRetry: a rate-limit error of a chunk is caught
StreamErrorRetried(shape) ==
    /\ pc = "writer" /\ req[Writer].pc = "returned"
    /\ LET e == MkError(shape, "stream", Writer, nchunks + 1) IN
         IF isRateLimitError(e)
         THEN /\ req' = [req EXCEPT ![Writer] = RetryCatch(@, e)]
              /\ UNCHANGED <<pc, failure>>
         ELSE /\ failure' = e
              /\ pc' = "catch"
              /\ UNCHANGED req
    /\ UNCHANGED <<topic, plan, values, joined, joinError, doneOrder, results,
                   fullText, console, arrived, nchunks, report, stderr,
                   exitCode, file, generatorConfig, contentGenerator>>

\* agents line 169: the stream threw while being read
StreamError(shape) ==
    /\ pc = "writer" /\ req[Writer].pc = "returned"
    /\ failure' = MkError(shape, "stream", Writer, nchunks + 1)
    /\ pc' = "catch"
    /\ UNCHANGED <<topic, plan, req, values, joined, joinError, doneOrder, results,
                   fullText, console, arrived, nchunks, report, stderr,
                   exitCode, file, generatorConfig, contentGenerator>>

\* runWriter rejected before the stream was open
WriterFailed ==
    /\ pc = "writer" /\ req[Writer].pc = "thrown"
    /\ failure' = req[Writer].error
    /\ pc' = "catch"
    /\ UNCHANGED <<topic, plan, req, values, joined, joinError, doneOrder, results,
                   fullText, console, arrived, nchunks, report, stderr,
                   exitCode, file, generatorConfig, contentGenerator>>

\* lines 156-157: mkdir resolved, writeFile is called
MkdirResolve ==
    /\ pc = "mkdir"
    /\ pc' = "write"
    /\ UNCHANGED <<topic, plan, req, values, joined, joinError, doneOrder, results,
                   fullText, console, arrived, nchunks, report, failure,
                   stderr, exitCode, file, generatorConfig, contentGenerator>>

\* lines 157-160: writeFile resolved
WriteResolve ==
    /\ pc = "write"
    /\ file' = [written |-> TRUE, content |-> report]
    /\ pc' = "finally"
    /\ UNCHANGED <<topic, plan, req, values, joined, joinError, doneOrder, results,
                   fullText, console, arrived, nchunks, report, failure,
                   stderr, exitCode, generatorConfig, contentGenerator>>

\* lines 156-157: mkdir or writeFile rejected
FsReject(shape) ==
    /\ pc \in {"mkdir", "write"}
    /\ failure' = MkError(shape, "fs", Writer, IF pc = "mkdir" THEN 1 ELSE 2)
    /\ pc' = "catch"
    /\ UNCHANGED <<topic, plan, req, values, joined, joinError, doneOrder, results,
                   fullText, console, arrived, nchunks, report, stderr,
                   exitCode, file, generatorConfig, contentGenerator>>

\* the catch block saving what was streamed so far
CatchSavesPartial ==
    /\ pc = "catch"
    /\ stderr' = Append(stderr, failure)
    /\ file' = [written |-> TRUE, content |-> fullText]
    /\ pc' = "finally"
    /\ UNCHANGED <<topic, plan, req, values, joined, joinError, doneOrder,
                   results, fullText, console, arrived, nchunks, report,
                   failure, exitCode, generatorConfig, contentGenerator>>

\* lines 161-163
Catch ==
    /\ pc = "catch"
    /\ stderr' = Append(stderr, failure)
    /\ pc' = "finally"
    /\ UNCHANGED <<topic, plan, req, values, joined, joinError, doneOrder, results,
                   fullText, console, arrived, nchunks, report, failure,
                   exitCode, file, generatorConfig, contentGenerator>>

\* the process exits 1 after a failure
FinallyExitFailure ==
    /\ pc = "finally"
    /\ exitCode' = IF failure # NoError THEN 1 ELSE 0
    /\ pc' = "exited"
    /\ UNCHANGED <<topic, plan, req, values, joined, joinError, doneOrder,
                   results, fullText, console, arrived, nchunks, report,
                   failure, stderr, file, generatorConfig, contentGenerator>>

\* lines 163-166
Finally ==
    /\ pc = "finally"
    /\ exitCode' = 0
    /\ pc' = "exited"
    /\ UNCHANGED <<topic, plan, req, values, joined, joinError, doneOrder, results,
                   fullText, console, arrived, nchunks, report, failure,
                   stderr, file, generatorConfig, contentGenerator>>

Next ==
    \/ \E t \in TopicStrings : ArgTopic(t)
    \/ AskTopic
    \/ \E t \in TopicStrings : AnswerTopic(t)
    \/ RejectTopic
    \/ StartCoordinator
    \/ \E id \in ReqIds : CfgResolve(id)
    \/ \E id \in ReqIds, shape \in PlainErrorShapes : CfgReject(id, shape)
    \/ \E id \in ReqIds : GenResolve(id)
    \/ \E id \in ReqIds, shape \in PlainErrorShapes : GenReject(id, shape)
    \/ \E id \in ReqIds : \E v \in ResponsesFor(id) : FnResolve(id, v)
    \/ \E id \in ReqIds, shape \in ErrorShapes : FnReject(id, shape)
    \/ \E id \in ReqIds : SleepDone(id)
    \/ CoordinatorPlanned
    \/ CoordinatorBadOutput
    \/ CoordinatorFailed
    \/ ResearchJoined
    \/ ResearchFailed
    \/ \E chunk \in Chunks : StreamChunk(chunk)
    \/ StreamEnd
    \/ \E shape \in PlainErrorShapes : StreamError(shape)
    \/ WriterFailed
    \/ MkdirResolve
    \/ WriteResolve
    \/ \E shape \in PlainErrorShapes : FsReject(shape)
    \/ Catch
    \/ Finally

Spec == Init /\ [][Next]_vars

\* The run with every pending promise settling and every continuation run:
\* the prompt is answered, each model call, timer, stream read and file
\* operation resolves or rejects, and the event loop runs what is ready.
LiveSpec == Spec /\ WF_vars(Next)

\* ------------------------------------- initializeClient under any callers
\* generateContent and streamContent are exported to any caller through the
\* agents; here every request may be started at any time, against a client
\* that is not created yet, and is followed up to the return of
\* initializeClient (its request is then in flight).
ClientsInit ==
    /\ pc = "clients"
    /\ topic = <<"a">>
    /\ plan = NoPlan
    /\ req = [id \in ReqIds |-> NewCall]
    /\ values = <<>>
    /\ joined = "none"
    /\ joinError = NoError
    /\ doneOrder = <<>>
    /\ results = <<>>
    /\ fullText = <<>>
    /\ console = <<>>
    /\ arrived = <<>>
    /\ nchunks = 0
    /\ report = <<>>
    /\ failure = NoError
    /\ stderr = <<>>
    /\ exitCode = -1
    /\ file = NoFile
    /\ generatorConfig = 0
    /\ contentGenerator = 0

\* agents lines 79, 137: a caller awaits initializeClient()
CallInitializeClient(id) ==
    /\ pc = "clients" /\ req[id].pc = "idle"
    /\ req' = [req EXCEPT ![id] = StartRequest(@)]
    /\ UNCHANGED <<pc, topic, plan, values, joined, joinError, doneOrder,
                   results, fullText, console, arrived, nchunks, report,
                   failure, stderr, exitCode, file, generatorConfig,
                   contentGenerator>>

ClientsNext ==
    \/ \E id \in ReqIds : CallInitializeClient(id)
    \/ \E id \in ReqIds : CfgResolve(id)
    \/ \E id \in ReqIds, shape \in PlainErrorShapes : CfgReject(id, shape)
    \/ \E id \in ReqIds : GenResolve(id)
    \/ \E id \in ReqIds, shape \in PlainErrorShapes : GenReject(id, shape)

ClientsSpec == ClientsInit /\ [][ClientsNext]_vars

\* ================================================================= claims
Is429(e) == e.status = 429 \/ e.code = 429
FnFailed(c) == c.fnError.src = "fn"
Blank(t) == \A i \in 1..Len(t) : t[i] = " "
TopicRead == pc \notin {"start", "prompt"}
NoNetwork ==
    /\ \A id \in ReqIds : req[id].pc = "idle" /\ req[id].calls = 0
    /\ generatorConfig = 0 /\ contentGenerator = 0

\* C1: a call of withRetry whose first invocation of the operation failed
\* with an error that is not a rate-limit error (neither status nor code is
\* 429) has invoked the operation exactly once, has slept never, and throws
\* that same error.
C1_NonRateLimitPropagates ==
    \A id \in ReqIds :
        (FnFailed(req[id]) /\ req[id].fnError.seq = 1 /\ ~Is429(req[id].fnError))
        => /\ req[id].pc = "thrown"
           /\ req[id].calls = 1
           /\ req[id].waits = <<>>
           /\ req[id].error = req[id].fnError

C1_Witness ==
    \E id \in ReqIds :
        /\ req[id].pc = "thrown" /\ FnFailed(req[id])
        /\ req[id].fnError.seq = 1 /\ req[id].fnError.obj
        /\ req[id].fnError.status = 500

\* C2: a call of withRetry that returns after N rate-limit failures (N < 5)
\* returns the value the operation resolved with on invocation N+1, has
\* invoked the operation N+1 times, and has waited 1000ms * 2^a after failed
\* attempt a (from 0), 1000ms * (2^N - 1) in all.
C2_SuccessAfterRateLimits ==
    \A id \in ReqIds :
        req[id].pc = "returned"
        => LET n == req[id].calls - 1 IN
           /\ n \in 0..4
           /\ req[id].result = req[id].fnValue
           /\ Len(req[id].waits) = n
           /\ \A a \in 0..(n - 1) : req[id].waits[a + 1] = 1000 * Pow2(a)
           /\ SumSeq(req[id].waits) = 1000 * (Pow2(n) - 1)
           /\ (n > 0 => FnFailed(req[id]) /\ req[id].fnError.seq = n)

C2_Witness ==
    \E id \in ReqIds :
        /\ req[id].pc = "returned" /\ req[id].calls = 5
        /\ SumSeq(req[id].waits) = 15000

\* C3: the operation is never invoked more than 5 times by one call of
\* withRetry, and a call that throws a rate-limit error (every invocation
\* was rate-limited) throws the error of its last invocation.
C3_AtMostFiveAttempts ==
    \A id \in ReqIds :
        /\ req[id].calls <= 5
        /\ (req[id].pc = "thrown" /\ req[id].error.src = "fn" /\ Is429(req[id].error))
           => /\ req[id].error = req[id].fnError
              /\ req[id].error.seq = req[id].calls

C3_Witness ==
    \E id \in ReqIds :
        /\ req[id].pc = "thrown" /\ req[id].error.src = "fn"
        /\ Is429(req[id].error) /\ req[id].calls = 5

Exhausted(c) == c.pc = "thrown" /\ c.error.src = "fn" /\ Is429(c.error)

\* C4 as stated: a call that is rate-limited on every invocation retries
\* five times and waits 1s, 2s, 4s, 8s and 16s.
C4_FiveRetriesFiveWaits ==
    \A id \in ReqIds :
        Exhausted(req[id])
        => /\ req[id].waits = <<1000, 2000, 4000, 8000, 16000>>
           /\ req[id].calls = 6

\* C4 amended: the waits of a call are always the first waits of 1s, 2s,
\* 4s, 8s, in that order, and a call that is rate-limited on every
\* invocation makes 5 invocations (4 retries) and exactly those 4 waits: no
\* wait follows the fifth failure and 16s is never waited.
C4_FourRetriesFourWaits ==
    \A id \in ReqIds :
        /\ Len(req[id].waits) <= 4
        /\ req[id].waits = SubSeq(<<1000, 2000, 4000, 8000>>, 1, Len(req[id].waits))
        /\ Exhausted(req[id])
           => /\ req[id].waits = <<1000, 2000, 4000, 8000>>
              /\ req[id].calls = 5

C4_Witness ==
    \E id \in ReqIds : Exhausted(req[id]) /\ Len(req[id].waits) = 4

\* C5: once the topic is read and is empty or all whitespace, the run is at
\* the topic check or has exited with code 1, and no client was created and
\* no request was started.
C5_BlankTopicNoNetwork ==
    (TopicRead /\ Blank(topic))
    => /\ pc \in {"check", "exited"}
       /\ (pc = "exited" => exitCode = 1)
       /\ NoNetwork

C5_Witness ==
    pc = "exited" /\ exitCode = 1 /\ Len(topic) = 2 /\ NoNetwork

\* C6: every slot Promise.all has filled holds the result for the question
\* of that index, and once all K requests have succeeded the aggregated list
\* (and main's results) has exactly K entries, entry i for question i,
\* whatever the order of completion.
InOrder(list) ==
    /\ Len(list) = K
    /\ \A i \in 1..K : list[i].question = plan.questions[i]

C6_ResultsInQuestionOrder ==
    /\ \A i \in 1..Len(values) :
          values[i] # NoResult => values[i].question = plan.questions[i]
    /\ joined = "fulfilled" => InOrder(values)
    /\ pc \in {"writer", "mkdir", "write"} => InOrder(results)

C6_Witness ==
    /\ joined = "fulfilled" /\ K = 2 /\ doneOrder = <<2, 1>>
    /\ InOrder(values)

\* C7: when the writer has returned, the returned string is the
\* concatenation in arrival order of all text fragments of the stream, and
\* so is what the console callback wrote; while streaming both equal the
\* fragments arrived so far.
WriterReturned == req[Writer].pc = "done"

C7_WriterConcatenates ==
    /\ fullText = arrived /\ console = arrived
    /\ WriterReturned => report = arrived

C7_Witness ==
    WriterReturned /\ nchunks = 2 /\ Len(report) >= 3 /\ report = arrived

\* C8: when the request of some research question has failed, the writer
\* request is never started and the report file is not written.
SomeResearchFailed == \E i \in 1..MaxQ : req[i].pc = "thrown"

C8_NoPartialResults ==
    SomeResearchFailed
    => /\ req[Writer].pc = "idle"
       /\ ~file.written
       /\ pc \in {"research", "catch", "finally", "exited"}
       /\ results = <<>>

C8_Witness ==
    /\ SomeResearchFailed /\ pc = "exited"
    /\ \E j \in 1..Len(values) : values[j] # NoResult

\* C9: the process exits with 1 exactly when the topic is blank, and with 0
\* otherwise; with 0 after a failure the error caught was printed, and
\* without failure nothing was printed and the file was written.
C9_ExitCodes ==
    pc = "exited"
    => /\ exitCode \in {0, 1}
       /\ (exitCode = 1) <=> Blank(topic)
       /\ (exitCode = 0 /\ failure # NoError) => stderr = <<failure>>
       /\ (exitCode = 0 /\ failure = NoError) => (stderr = <<>> /\ file.written)

C9_Witness ==
    /\ pc = "exited" /\ exitCode = 0
    /\ failure.src = "fs" /\ stderr = <<failure>>

\* C10: a researcher request exists only after the coordinator request has
\* completed with a plan, the writer request only after every researcher
\* request has completed, the file only after the writer has returned; after
\* a failed stage no later stage has started.
ResearchStarted == \E i \in 1..MaxQ : req[i].pc # "idle"
WriterStarted == req[Writer].pc # "idle"

C10_StageOrder ==
    /\ ResearchStarted => (req[Coordinator].pc = "done" /\ plan # NoPlan)
    /\ WriterStarted
       => /\ req[Coordinator].pc = "done"
          /\ \A i \in 1..MaxQ : req[i].pc = IF i <= K THEN "done" ELSE "idle"
          /\ Len(results) = K
    /\ file.written => (WriterReturned /\ file.content = report)
    /\ (req[Coordinator].pc = "thrown" \/ failure.src = "parse")
       => (~ResearchStarted /\ ~WriterStarted /\ ~file.written)
    /\ SomeResearchFailed => (~WriterStarted /\ ~file.written)
    /\ (req[Writer].pc = "thrown" \/ failure.src = "stream") => ~file.written

C10_Witness ==
    file.written /\ K = 2 /\ pc = "exited"

\* C11: the clients created successfully are at most one, and all calls of
\* initializeClient that have returned hold the same handle (client and
\* config), whatever the interleaving of the calls.
ClientReturned(id) == req[id].pc = "calling"
CreatedBy(id) == ClientReturned(id) /\ req[id].client = id + 1

C11_SingleClient ==
    /\ Cardinality({ id \in ReqIds : CreatedBy(id) }) <= 1
    /\ \A a, b \in ReqIds :
          (ClientReturned(a) /\ ClientReturned(b))
          => (req[a].client = req[b].client /\ req[a].config = req[b].config)

\* C12: runCoordinator returns a plan only for a response whose text is one
\* JSON document that is an object with a list of strings 'questions' and a
\* string 'rationale', and the plan has those questions; for any other
\* response (no output, unparseable, another shape) it throws, main holds no
\* plan and no researcher request is started then or later.
HasOneDocument(response) ==
    /\ response.cand
    /\ Len(response.parts) = 1
    /\ response.parts[1].hasText
    /\ Len(response.parts[1].text) = 1
    /\ response.parts[1].text[1].kind = "json"

DocumentOf(response) == response.parts[1].text[1].val

ExpectedShape(response) ==
    /\ HasOneDocument(response)
    /\ DocumentOf(response).t = "object"
    /\ DocumentOf(response).questions.t = "array"
    /\ \A i \in 1..Len(DocumentOf(response).questions.items) :
          DocumentOf(response).questions.items[i].t = "string"
    /\ DocumentOf(response).rationale.t = "string"

CoordinatorAnswered == pc = "coord" /\ req[Coordinator].pc = "returned"

C12_PlanStep ==
    CoordinatorAnswered
    => IF ExpectedShape(req[Coordinator].result)
       THEN /\ pc' = "research"
            /\ Len(plan'.questions)
                 = Len(DocumentOf(req[Coordinator].result).questions.items)
            /\ \A i \in 1..Len(plan'.questions) :
                  plan'.questions[i]
                    = DocumentOf(req[Coordinator].result).questions.items[i].s
       ELSE /\ pc' = "catch"
            /\ plan' = NoPlan
            /\ failure'.src = "parse"
            /\ \A i \in 1..MaxQ : req'[i].pc = "idle"

C12_PlanOnlyWhenValid ==
    /\ [][C12_PlanStep]_vars
    /\ [][plan' # plan => (CoordinatorAnswered
                           /\ ExpectedShape(req[Coordinator].result))]_vars
    /\ [](failure.src = "parse"
           => (plan = NoPlan /\ \A i \in 1..MaxQ : req[i].pc = "idle"))

C12_Witness ==
    /\ pc = "exited" /\ failure.src = "parse" /\ plan = NoPlan
    /\ HasOneDocument(req[Coordinator].result)
    /\ ~ExpectedShape(req[Coordinator].result)
    /\ \A i \in 1..MaxQ : req[i].pc = "idle"

\* C13: every plan main receives from runCoordinator has at least one
\* question, and the researcher stage has started at least one request.
C13_PlanNonEmpty ==
    /\ plan # NoPlan => Len(plan.questions) >= 1
    /\ pc = "research" => \E i \in 1..MaxQ : req[i].pc # "idle"

\* C14: the output file changes at most once in a run, in the step where
\* writeFile completes, and then holds exactly the string the writer
\* returned; it is written only when the coordinator, every researcher and
\* the writer have succeeded, and is untouched when one of them failed.
StageFailed == failure.src \in {"fn", "auth", "parse", "stream"}

C14_WrittenState ==
    /\ file.written
       => /\ file.content = report
          /\ WriterReturned
          /\ req[Coordinator].pc = "done"
          /\ \A i \in 1..K : req[i].pc = "done"
          /\ Len(results) = K
          /\ failure = NoError
    /\ StageFailed => file = NoFile

C14_FileWrittenOnce ==
    /\ []C14_WrittenState
    /\ [][file' # file
            => (file = NoFile /\ pc = "write" /\ file'.written
                /\ file'.content = report)]_vars

C14_Witness ==
    /\ pc = "exited" /\ file.written /\ Len(file.content) >= 2
    /\ file.content = arrived /\ K >= 1

\* C15: in a pipeline run the cached handle is written only while the
\* coordinator's call of initializeClient runs, each of its two parts once;
\* once a researcher or the writer has started, the handle is the one the
\* coordinator created, no request is creating a client, and every request
\* got that handle from the cache.
InFlight(c) == c.pc \in {"calling", "sleeping", "returned", "thrown"}

C15_HandleCached ==
    (ResearchStarted \/ WriterStarted)
    => /\ generatorConfig = Coordinator + 1
       /\ contentGenerator = Coordinator + 1
       /\ \A id \in 1..Writer :
             /\ req[id].pc \notin {"cfg", "gen"}
             /\ InFlight(req[id])
                => (req[id].client = contentGenerator
                    /\ req[id].config = generatorConfig)

C15_HandleWrite ==
    /\ generatorConfig' # generatorConfig
       => (generatorConfig = 0 /\ pc = "coord" /\ req[Coordinator].pc = "cfg")
    /\ contentGenerator' # contentGenerator
       => (contentGenerator = 0 /\ pc = "coord" /\ req[Coordinator].pc = "gen")

C15_HandleReadOnlyInFanOut ==
    /\ []C15_HandleCached
    /\ [][C15_HandleWrite]_vars

C15_Witness ==
    /\ pc = "research" /\ K = 2
    /\ \A i \in 1..2 : req[i].pc = "calling" /\ req[i].client = Coordinator + 1

\* C16: the K research requests are all started in the one step that leaves
\* the coordinator stage, each with its first request sent, before the driver
\* waits for any of them; during the research stage exactly the first K
\* researchers have been started.
C16_AllStarted ==
    pc = "research"
    => \A i \in 1..MaxQ : (req[i].pc # "idle") <=> (i <= K)

C16_StartStep ==
    \A i \in 1..MaxQ :
       (req[i].pc = "idle" /\ req'[i].pc # "idle")
       => /\ pc = "coord" /\ pc' = "research"
          /\ joined' = "pending"
          /\ \A j \in 1..Len(plan'.questions) :
                /\ req[j].pc = "idle"
                /\ req'[j].pc = "calling" /\ req'[j].calls = 1

C16_FanOutConcurrent ==
    /\ []C16_AllStarted
    /\ [][C16_StartStep]_vars

C16_Witness ==
    /\ pc = "research" /\ K = 2 /\ joined = "pending"
    /\ req[1].pc = "calling" /\ req[1].calls = 1
    /\ req[2].pc = "sleeping" /\ req[2].calls = 2

\* C17: once withRetry has returned the writer's stream, its call makes no
\* further invocation and no further wait; an error raised while the stream
\* is read, a 429 included, goes straight to the driver's catch, which prints
\* it; the console only ever grows, so fragments already shown stay shown.
IsPrefix(a, b) == Len(a) <= Len(b) /\ SubSeq(b, 1, Len(a)) = a

C17_OpenedStep ==
    /\ req[Writer].pc = "returned" => req'[Writer] \in {req[Writer], Consumed}
    /\ req[Writer].pc = "done" => req'[Writer] = req[Writer]
    /\ IsPrefix(console, console')

C17_StreamFailureStep ==
    (failure.src # "stream" /\ failure'.src = "stream")
    => /\ pc = "writer" /\ req[Writer].pc = "returned"
       /\ pc' = "catch"
       /\ UNCHANGED <<req, console, fullText, nchunks>>

C17_StreamFailed ==
    failure.src = "stream"
    => /\ pc \in {"catch", "finally", "exited"}
       /\ req[Writer].pc = "returned"
       /\ failure.seq = nchunks + 1
       /\ console = arrived
       /\ pc \in {"finally", "exited"} => stderr = <<failure>>

C17_NoRetryWhileStreaming ==
    /\ []C17_StreamFailed
    /\ [][C17_OpenedStep]_vars
    /\ [][C17_StreamFailureStep]_vars

C17_Witness ==
    /\ pc = "exited" /\ failure.src = "stream" /\ Is429(failure)
    /\ nchunks >= 1 /\ Len(console) >= 1
    /\ req[Writer].calls = 2 /\ Len(req[Writer].waits) = 1

\* C18: every call has its own retry state: the number of waits of a call
\* and their lengths follow from that call's own number of invocations, which
\* is at most MAX_RETRIES (so at most MAX_RETRIES * K for the K researchers
\* together), and a step of the research stage changes the state of at most
\* one researcher's call.
WaitsOf(c) ==
    IF c.pc = "sleeping" THEN c.calls
    ELSE IF c.calls = 0 THEN 0 ELSE c.calls - 1

C18_OwnSchedule ==
    /\ \A id \in ReqIds :
          /\ req[id].calls <= MAX_RETRIES
          /\ req[id].waits =
                [a \in 1..WaitsOf(req[id]) |-> INITIAL_DELAY_MS * Pow2(a - 1)]
          /\ req[id].pc \in {"calling", "sleeping", "returned"}
             => req[id].attempt = Len(req[id].waits) - (IF req[id].pc = "sleeping" THEN 1 ELSE 0)
    /\ SumSeq([i \in 1..MaxQ |-> req[i].calls]) <= MAX_RETRIES * K

C18_OneCallPerStep ==
    (pc = "research" /\ pc' = "research")
    => Cardinality({ i \in 1..MaxQ : req'[i] # req[i] }) <= 1

C18_RetryStatePerCall ==
    /\ []C18_OwnSchedule
    /\ [][C18_OneCallPerStep]_vars

C18_Witness ==
    /\ pc = "research" /\ joined = "pending"
    /\ req[1].pc = "calling" /\ req[1].calls = MAX_RETRIES
    /\ req[2].pc = "sleeping" /\ req[2].calls = 1
    /\ req[2].waits = <<INITIAL_DELAY_MS>>

\* C19: when every pending call, timer and stream read settles, the run
\* reaches process exit, and on the way the coordinator request, each research
\* request and the opening of the writer stream are each invoked at most
\* MAX_RETRIES times and slept for at most MAX_RETRIES - 1 times.
C19_Budget ==
    /\ req[Coordinator].calls <= MAX_RETRIES
    /\ \A i \in 1..MaxQ : req[i].calls <= MAX_RETRIES
    /\ req[Writer].calls <= MAX_RETRIES
    /\ \A id \in ReqIds : Len(req[id].waits) <= MAX_RETRIES - 1

C19_Terminates ==
    /\ []C19_Budget
    /\ <>(pc = "exited")
    /\ [](pc = "exited" => [](pc = "exited"))

C19_Witness ==
    /\ pc = "exited"
    /\ Exhausted(req[Writer]) /\ req[Writer].calls = MAX_RETRIES
    /\ K = 2

\* C20: from the moment one research request has failed the join is
\* rejected with that request's error; no request takes another step and no
\* value is stored any more, whatever the other requests were doing; the
\* only steps left are the driver's catch, which prints that error, and the
\* exit; the values already stored never become results.
Pending(c) == c.pc \in {"cfg", "gen", "calling", "sleeping"}

C20_Rejected ==
    SomeResearchFailed
    => /\ joined = "rejected"
       /\ Cardinality({ i \in 1..MaxQ : req[i].pc = "thrown" }) = 1
       /\ \E i \in 1..MaxQ : req[i].pc = "thrown" /\ joinError = req[i].error
       /\ failure \in {NoError, joinError}
       /\ pc \in {"finally", "exited"} => stderr = <<joinError>>

C20_AbandonStep ==
    SomeResearchFailed
    => /\ UNCHANGED <<req, values, results, joined, joinError, doneOrder>>
       /\ pc' \in {"catch", "finally", "exited"}

C20_FailFastJoin ==
    /\ []C20_Rejected
    /\ [][C20_AbandonStep]_vars

C20_Witness ==
    /\ pc = "exited" /\ joined = "rejected"
    /\ req[1].pc = "sleeping" /\ req[1].calls = 2
    /\ Exhausted(req[2])
    /\ stderr = <<req[2].error>>

====
